---- MODULE Spec2Model ----
(***************************************************************************)
(* A model of the temperature monitoring service (src/src/main.rs):        *)
(* the startup enumeration of main, the sampling loop update_temperatures, *)
(* the request handlers temperatures_handler and metrics_handler, and the  *)
(* parser read_temperature.                                                *)
(*                                                                         *)
(* Text (file contents, directory entry names) is a sequence of one        *)
(* character strings, so that lines(), split("t="), starts_with("28-")     *)
(* and parse::<i32>() are computed character by character as the code      *)
(* does.  Directory entry names are valid UTF-8 (the names the w1 bus      *)
(* driver creates), on which to_string_lossy() changes nothing.            *)
(*                                                                         *)
(* An f64 Celsius value is the quotient temp_raw / 1000.0; it is           *)
(* represented by the exact fraction <<temp_raw, 1000>>.  A gauge starts   *)
(* at 0.0, the fraction <<0, 1000>>.                                       *)
(***************************************************************************)
EXTENDS Integers, Sequences, FiniteSets

VARIABLES
    file,               \* the w1_slave file handed to read_temperature
    result,             \* what read_temperature returned for it
    temperatures,       \* AppState.temperatures: sensor name -> f64
    temperature_gauges, \* AppState.temperature_gauges: sensor name -> Gauge
    gaugeValue,         \* the Gauge objects: handle -> current f64
    registry,           \* AppState.registry: the registered collectors
    tempsLock,          \* the RwLock around temperatures
    gaugesLock,         \* the RwLock around temperature_gauges
    pcMain,             \* where main is
    pcLoop,             \* where update_temperatures is
    sensors,            \* the loop's iterator: sensors not yet visited
    sensor_name,        \* the loop's current sensor
    devices,            \* main's iterator: directory entries not yet visited
    cycle,              \* history: what the cycle in progress (or last) did
    committed,          \* history: temperatures when the last cycle ended
    arrived,            \* /temperatures requests waiting for the read lock
    response,           \* what the handler that returned last returned
    read_dir,           \* history: what fs::read_dir has just returned
    previous,           \* history: the cycle before, while this one repeats it
    succeeded,          \* history: the sensors some read of which succeeded
    slots               \* the keys of temperatures in the order of its table

vars == <<file, result, temperatures, temperature_gauges, gaugeValue, registry,
          tempsLock, gaugesLock, pcMain, pcLoop, sensors, sensor_name, devices,
          cycle, committed, arrived, response, read_dir, previous,
          succeeded, slots>>

(***************************************************************************)
(* Bounds of the model.                                                    *)
(***************************************************************************)
MaxLineLen == 6
NumRequests == 2

(***************************************************************************)
(* Text.                                                                   *)
(***************************************************************************)
NL == "\n"
CR == "\r"
Digits == {"0", "1", "2", "3", "4", "5", "6", "7", "8", "9"}

DigitVal(c) ==
    CASE c = "0" -> 0 [] c = "1" -> 1 [] c = "2" -> 2 [] c = "3" -> 3
      [] c = "4" -> 4 [] c = "5" -> 5 [] c = "6" -> 6 [] c = "7" -> 7
      [] c = "8" -> 8 [] c = "9" -> 9

I32Max == 2147483647
I32Min == (-I32Max) - 1

\* str::starts_with
StartsWith(s, p) == Len(s) >= Len(p) /\ SubSeq(s, 1, Len(p)) = p

\* The index of the first occurrence of pat in s at or after from; 0 if none.
RECURSIVE Find(_, _, _)
Find(s, pat, from) ==
    IF from + Len(pat) - 1 > Len(s) THEN 0
    ELSE IF SubSeq(s, from, from + Len(pat) - 1) = pat THEN from
    ELSE Find(s, pat, from + 1)

\* str::split(pat): the pieces between the non-overlapping occurrences of pat,
\* left to right; a text without pat is one piece.
RECURSIVE Split(_, _)
Split(s, pat) ==
    LET i == Find(s, pat, 1)
    IN  IF i = 0 THEN <<s>>
        ELSE <<SubSeq(s, 1, i - 1)>> \o Split(SubSeq(s, i + Len(pat), Len(s)), pat)

\* str::lines(): the pieces between line feeds, each without the carriage
\* return that stood before its line feed; the text after the last line feed
\* is a line only when it is not empty.
StripCr(piece) ==
    IF piece # <<>> /\ piece[Len(piece)] = CR
    THEN SubSeq(piece, 1, Len(piece) - 1) ELSE piece

Lines(s) ==
    LET pieces == Split(s, <<NL>>)
        n == Len(pieces)
        ended == [i \in 1..(n - 1) |-> StripCr(pieces[i])]
    IN  IF pieces[n] = <<>> THEN ended ELSE Append(ended, pieces[n])

\* Iterator::nth(n), counted from 0.
Nth(seq, n) == IF Len(seq) > n THEN [some |-> TRUE, val |-> seq[n + 1]]
               ELSE [some |-> FALSE, val |-> <<>>]

\* The digits of an i32 accumulated as i32::from_str does: upwards for a
\* positive number, downwards for a negative one, with checked arithmetic.
\* The result is <<overflowed, value>>.
RECURSIVE Accumulate(_, _, _)
Accumulate(ds, acc, neg) ==
    IF ds = <<>> THEN <<FALSE, acc>>
    ELSE LET d == DigitVal(Head(ds))
         IN  IF neg
             THEN IF acc < -214748364 \/ acc * 10 < I32Min + d
                  THEN <<TRUE, 0>>
                  ELSE Accumulate(Tail(ds), acc * 10 - d, neg)
             ELSE IF acc > 214748364 \/ acc * 10 > I32Max - d
                  THEN <<TRUE, 0>>
                  ELSE Accumulate(Tail(ds), acc * 10 + d, neg)

\* Result<T, Box<dyn Error>>: a value, or an error and no value.
Ok(v) == [ok |-> TRUE, val |-> v]
Err(e) == [ok |-> FALSE, err |-> e]
\* No call of read_temperature has returned yet.
NoResult == Err("not called")

\* (mutant of ParseI32: a text that is no integer counts as 0, as with
\* parse().unwrap_or(0))
ParseI32OrZero(s) ==
    LET signed == s # <<>> /\ Head(s) \in {"+", "-"}
        neg    == s # <<>> /\ Head(s) = "-"
        ds     == IF signed THEN Tail(s) ELSE s
    IN  IF ds = <<>> \/ \E i \in 1..Len(ds) : ds[i] \notin Digits
        THEN Ok(0)
        ELSE LET r == Accumulate(ds, 0, neg)
             IN  IF r[1] THEN Ok(0) ELSE Ok(r[2])

\* str::parse::<i32>(): an optional sign, then at least one digit and nothing
\* but digits, within the range of an i32.
ParseI32(s) ==
    LET signed == s # <<>> /\ Head(s) \in {"+", "-"}
        neg    == s # <<>> /\ Head(s) = "-"
        ds     == IF signed THEN Tail(s) ELSE s
    IN  IF s = <<>> THEN Err("ParseIntError: empty")
        ELSE IF ds = <<>> \/ \E i \in 1..Len(ds) : ds[i] \notin Digits
             THEN Err("ParseIntError: invalid digit")
        ELSE LET r == Accumulate(ds, 0, neg)
             IN  IF r[1] THEN Err("ParseIntError: overflow") ELSE Ok(r[2])

\* (mutant of Celsius: centidegrees taken for millidegrees)
CelsiusFromHundredths(temp_raw) == <<temp_raw, 100>>

\* temp_raw as f64 / 1000.0
Celsius(temp_raw) == <<temp_raw, 1000>>

\* The files: one that cannot be read, or a readable text.
Unreadable == [readable |-> FALSE, text |-> <<>>]
Readable(t) == [readable |-> TRUE, text |-> t]

read_temperature(f) ==
    IF ~f.readable THEN Err("io")
    ELSE LET temp_line == Nth(Lines(f.text), 1)
         IN  IF ~temp_line.some THEN Err("Temperature data not found")
             ELSE LET temp_str == Nth(Split(temp_line.val, <<"t", "=">>), 1)
                  IN  IF ~temp_str.some THEN Err("Temperature value not found")
                      ELSE LET temp_raw == ParseI32(temp_str.val)
                           IN  IF ~temp_raw.ok THEN temp_raw
                               ELSE Ok(Celsius(temp_raw.val))

(***************************************************************************)
(* The environment: the devices directory and the sensor files.            *)
(***************************************************************************)
Sensor1 == <<"2", "8", "-", "0", "0", "0", "1">>
Sensor2 == <<"2", "8", "-", "0", "0", "0", "2">>
FooBar  == <<"f", "o", "o", "-", "b", "a", "r">>
ZeroXyz == <<"0", "0", "-", "x", "y", "z">>
MockDevice == <<"2", "8", "-", "m", "o", "c", "k">>
FamilyPrefix == <<"2", "8", "-">>

\* The entry names a listing of the devices directory may hold.
EntryNames == {Sensor1, Sensor2, FooBar, ZeroXyz}
Listings == SUBSET EntryNames

\* The w1_slave contents a sensor read may find while the service runs.
FileSamples ==
    { Unreadable,
      Readable(<<"a", NL, "b", " ", "t", "=", "2", "3", "6", "2", "5", NL>>),
      Readable(<<"a", NL, "t", "=", "-", "5", "0", "0">>),
      Readable(<<"a", "b", "c", NL, "x", "y", "z", " ", "t", "=", "2", "3", "6",
                 "2", "5", " ", "d", "e", "f", NL>>) }

(***************************************************************************)
(* The shared state: maps, gauges, the registry and the two RwLocks.       *)
(***************************************************************************)
EmptyMap == [k \in {} |-> k]

\* HashMap::insert
Insert(m, k, v) == [x \in DOMAIN m \cup {k} |-> IF x = k THEN v ELSE m[x]]

\* The table of a HashMap after a new key went into the bucket its hash
\* names: the key stands after i of the keys the table held.  The hasher is
\* seeded at random (RandomState), so i is any place.
PlacedAt(table, i, k) ==
    SubSeq(table, 1, i) \o <<k>> \o SubSeq(table, i + 1, Len(table))

\* A parking_lot RwLock: a writer, a count of readers, and a writer that is
\* parked waiting for the readers to leave (new readers then wait behind it).
Unlocked == [writer |-> FALSE, readers |-> 0, waiting |-> FALSE]

\* (mutant of CanRead: the readers do not wait for the writer)
CanReadDuringWrite(l) == TRUE

\* RwLock::read() returns
CanRead(l) == ~l.writer /\ ~l.waiting
\* RwLock::write() returns
CanWrite(l) == ~l.writer /\ l.readers = 0

\* Gauge::with_opts(opts.const_label("sensor", name)): a new gauge object.  Its
\* value is 0.0; written records, as history, whether set() was ever called.
NewGauge(name) ==
    [sensor |-> name,
     gen |-> 1 + Cardinality({g \in DOMAIN gaugeValue : g.sensor = name})]
InitialValue == [val |-> <<0, 1000>>, written |-> FALSE]

\* Registry::register accepts a collector unless one with the same name and
\* constant labels is registered already.
RegisterOk(reg, g) == \A r \in reg : r.sensor # g.sensor

\* Registry::gather: the series of every registered collector.
Gather ==
    { [sensor |-> g.sensor, value |-> gaugeValue[g].val,
       written |-> gaugeValue[g].written] : g \in registry }

\* No handler has returned yet.
NoResponse == [handler |-> "none", body |-> {}]

\* HashMap::iter: the keys of temps in the order of the table.
Keys(temps) == SelectSeq(slots, LAMBDA k : k \in DOMAIN temps)

\* The Vec<Temperature> temperatures_handler collects from temps.iter().
Readings(temps) ==
    [i \in 1..Len(Keys(temps)) |->
        [sensor_id |-> Keys(temps)[i], celsius |-> temps[Keys(temps)[i]]]]

\* The elements of a sequence.
Items(seq) == {seq[i] : i \in 1..Len(seq)}

(***************************************************************************)
(* main: the startup enumeration, then the loop is spawned and the server  *)
(* starts.                                                                 *)
(***************************************************************************)
\* The history of a cycle: whether read_dir succeeded, the sensors it listed,
\* and the outcome of the read of each sensor visited so far.
NoCycle == [enumerated |-> FALSE, listed |-> {}, reads |-> EmptyMap]

\* The history of the cycle before: that there is none to compare with, or
\* what it read of each sensor and the number of collectors registered when
\* it ended.
NoPrevious == [known |-> FALSE]
Before(c, reg) ==
    [known |-> TRUE, reads |-> c.reads, registered |-> Cardinality(reg)]

\* The history once the cycle in progress has read sensor s with outcome o:
\* the reads it has still to repeat, or nothing once it differs.
Repeated(prev, s, o) ==
    IF prev.known /\ prev.reads[s] = o
    THEN [prev EXCEPT !.reads = [k \in DOMAIN prev.reads \ {s} |-> prev.reads[k]]]
    ELSE NoPrevious

\* The state main builds before it looks at the devices directory.
Constructed ==
    /\ temperatures = EmptyMap
    /\ temperature_gauges = EmptyMap
    /\ gaugeValue = EmptyMap
    /\ registry = {}
    /\ tempsLock = Unlocked
    /\ gaugesLock = Unlocked
    /\ pcMain = "read_dir"
    /\ pcLoop = "unspawned"
    /\ sensors = {}
    /\ sensor_name = <<>>
    /\ devices = {}
    /\ cycle = NoCycle
    /\ committed = EmptyMap
    /\ arrived = 0
    /\ response = NoResponse
    /\ read_dir = {}
    /\ previous = NoPrevious
    /\ succeeded = {}
    /\ slots = <<>>

Init ==
    /\ file = Unreadable
    /\ result = NoResult
    /\ Constructed

\* (mutant of SeedGauge: the gauge is registered and not put into the map)
SeedGaugeUnmapped(device) ==
    LET gauge == NewGauge(device)
    IN  IF RegisterOk(registry, gauge)
        THEN /\ gaugeValue' = Insert(gaugeValue, gauge, InitialValue)
             /\ registry' = registry \cup {gauge}
             /\ temperature_gauges' = temperature_gauges
             /\ pcMain' = pcMain
        ELSE /\ pcMain' = "panicked"
             /\ UNCHANGED <<gaugeValue, registry, temperature_gauges>>

\* register_gauge(&registry, device) followed by
\* state.temperature_gauges.write().insert(device, gauge); the unwrap on
\* register panics, which ends the process.
SeedGauge(device) ==
    LET gauge == NewGauge(device)
    IN  IF RegisterOk(registry, gauge)
        THEN /\ gaugeValue' = Insert(gaugeValue, gauge, InitialValue)
             /\ registry' = registry \cup {gauge}
             /\ temperature_gauges' = Insert(temperature_gauges, device, gauge)
             /\ pcMain' = pcMain
        ELSE /\ pcMain' = "panicked"
             /\ UNCHANGED <<gaugeValue, registry, temperature_gauges>>

MainReadDirOk ==
    /\ pcMain = "read_dir"
    /\ \E listing \in Listings :
          /\ devices' = listing
          /\ read_dir' = listing
    /\ pcMain' = "seeding"
    /\ UNCHANGED <<file, result, temperatures, temperature_gauges, gaugeValue,
                   registry, tempsLock, gaugesLock, pcLoop, sensors,
                   sensor_name, cycle, committed, arrived, response,
                   previous, succeeded, slots>>

MainReadDirErr ==
    /\ pcMain = "read_dir"
    /\ LET gauge == NewGauge(MockDevice)
       IN  /\ gaugeValue' = Insert(gaugeValue, gauge, InitialValue)
           /\ registry' = registry \cup {gauge}
           /\ temperature_gauges' = Insert(temperature_gauges, MockDevice, gauge)
    /\ pcMain' = "spawn"
    /\ UNCHANGED <<file, result, temperatures, tempsLock, gaugesLock, pcLoop,
                   sensors, sensor_name, devices, cycle, committed, arrived, response,
                   read_dir, previous, succeeded, slots>>

MainSeed ==
    /\ pcMain = "seeding"
    /\ \E device_name \in devices :
          /\ devices' = devices \ {device_name}
          /\ IF StartsWith(device_name, FamilyPrefix)
             THEN SeedGauge(device_name)
             ELSE UNCHANGED <<gaugeValue, registry, temperature_gauges, pcMain>>
    /\ UNCHANGED <<file, result, temperatures, tempsLock, gaugesLock, pcLoop,
                   sensors, sensor_name, cycle, committed, arrived, response,
                   read_dir, previous, succeeded, slots>>

MainSeedDone ==
    /\ pcMain = "seeding"
    /\ devices = {}
    /\ read_dir' = {}
    /\ pcMain' = "spawn"
    /\ UNCHANGED <<file, result, temperatures, temperature_gauges, gaugeValue,
                   registry, tempsLock, gaugesLock, pcLoop, sensors,
                   sensor_name, devices, cycle, committed, arrived, response,
                   previous, succeeded, slots>>

\* tokio::spawn(update_temperatures(..))
MainSpawn ==
    /\ pcMain = "spawn"
    /\ pcMain' = "bind"
    /\ pcLoop' = "read_dir"
    /\ UNCHANGED <<file, result, temperatures, temperature_gauges, gaugeValue,
                   registry, tempsLock, gaugesLock, sensors, sensor_name,
                   devices, cycle, committed, arrived, response,
                   read_dir, previous, succeeded, slots>>

\* axum::serve(..): from here on requests are handled.
MainServe ==
    /\ pcMain = "bind"
    /\ pcMain' = "serving"
    /\ UNCHANGED <<file, result, temperatures, temperature_gauges, gaugeValue,
                   registry, tempsLock, gaugesLock, pcLoop, sensors,
                   sensor_name, devices, cycle, committed, arrived, response,
                   read_dir, previous, succeeded, slots>>

(***************************************************************************)
(* update_temperatures: the sampling loop.                                 *)
(***************************************************************************)
\* (mutant of Sensors: every entry of the directory is taken for a sensor)
AllEntries(entries) == entries

\* entries.filter_map(Result::ok).filter(|e| e.file_name().starts_with("28-"))
Sensors(entries) == {e \in entries : StartsWith(e, FamilyPrefix)}

\* (mutant of AfterFailedRead: a failed read breaks out of the for loop)
NoneAfterFailedRead(rest) == {}

\* The sensors still to visit after a read failed: the Err arm only logs.
AfterFailedRead(rest) == rest

\* (mutant of NeedsGauge: a gauge is made on every successful read)
AlwaysNeedsGauge(gauges, name) == TRUE

\* gauges.entry(name).or_insert_with(..) needs a new gauge.
NeedsGauge(gauges, name) == name \notin DOMAIN gauges

\* (mutant of SetTo: the gauge is set to a constant)
SetToZero(temp) == [val |-> <<0, 1000>>, written |-> TRUE]

\* The value gauge.set(temp) stores.
SetTo(temp) == [val |-> temp, written |-> TRUE]

\* (mutant of Upsert: the store is built anew from the sensor just read)
UpsertAlone(temps, name, temp) == [k \in {name} |-> temp]

\* (mutant of Upsert: a value read is added to the value stored)
UpsertAdded(temps, name, temp) ==
    Insert(temps, name,
           IF name \in DOMAIN temps THEN <<temps[name][1] + temp[1], 1000>>
           ELSE temp)

\* temps.insert(sensor_name.clone(), temp)
Upsert(temps, name, temp) == Insert(temps, name, temp)

\* (mutant of KeptOnError: a sensor that cannot be read is taken out of the
\* store)
RemovedOnError(temps, name) == [k \in DOMAIN temps \ {name} |-> temps[k]]

\* The store after the Err arm of a read, which only logs.
KeptOnError(temps, name) == temps

\* (mutant of Granted: readers go on waiting behind a writer that was parked)
GrantedStillParked(l) == [l EXCEPT !.writer = TRUE]

\* The lock once RwLock::write() has returned: the loop is its writer and is
\* parked no more.
Granted(l) == [l EXCEPT !.writer = TRUE, !.waiting = FALSE]

\* (mutant of Dropped: the guards outlive the block)
Kept(l) == l

\* The locks the loop gives back when the Ok arm's block ends.
Dropped(l) == [l EXCEPT !.writer = FALSE]

\* (mutant of AfterEnumerationError: the error is unwrapped and the task ends)
EnumerationErrorPanics == "panicked"

\* The loop after the Err arm of read_dir, which only logs: the sleep.
AfterEnumerationError == "sleep"

\* (mutant of AfterReadError: the error is returned out of the loop)
ReadErrorReturns == "returned"

\* The loop after a failed read of one sensor: the for loop goes on.
AfterReadError == "iter"

\* sleep(60 s) is over: fs::read_dir(devices_path) returns Ok(entries).
LoopReadDirOk ==
    /\ pcLoop = "read_dir"
    /\ \E listing \in Listings :
          /\ sensors' = Sensors(listing)
          /\ cycle' = [enumerated |-> TRUE, listed |-> Sensors(listing),
                       reads |-> EmptyMap]
          /\ read_dir' = listing
          /\ previous' = IF cycle.enumerated /\ cycle.listed = Sensors(listing)
                         THEN Before(cycle, registry) ELSE NoPrevious
    /\ pcLoop' = "lock_temps"
    /\ UNCHANGED <<file, result, temperatures, temperature_gauges, gaugeValue,
                   registry, tempsLock, gaugesLock, pcMain, sensor_name,
                   devices, committed, arrived, response,
                   succeeded, slots>>

\* fs::read_dir(devices_path) returns Err: log, then sleep.
LoopReadDirErr ==
    /\ pcLoop = "read_dir"
    /\ cycle' = NoCycle
    /\ pcLoop' = AfterEnumerationError
    /\ UNCHANGED <<file, result, temperatures, temperature_gauges, gaugeValue,
                   registry, tempsLock, gaugesLock, pcMain, sensors,
                   sensor_name, devices, committed, arrived, response,
                   read_dir, previous, succeeded, slots>>

\* state.temperatures.write() finds readers inside: the loop parks, and
\* readers that arrive from now on wait behind it.
LoopParkTemps ==
    /\ pcLoop = "lock_temps"
    /\ ~CanWrite(tempsLock)
    /\ ~tempsLock.waiting
    /\ tempsLock' = [tempsLock EXCEPT !.waiting = TRUE]
    /\ UNCHANGED <<file, result, temperatures, temperature_gauges, gaugeValue,
                   registry, gaugesLock, pcMain, pcLoop, sensors, sensor_name,
                   devices, cycle, committed, arrived, response,
                   read_dir, previous, succeeded, slots>>

\* let mut temps = state.temperatures.write();
LoopLockTemps ==
    /\ pcLoop = "lock_temps"
    /\ CanWrite(tempsLock)
    /\ tempsLock' = Granted(tempsLock)
    /\ read_dir' = {}
    /\ pcLoop' = "lock_gauges"
    /\ UNCHANGED <<file, result, temperatures, temperature_gauges, gaugeValue,
                   registry, gaugesLock, pcMain, sensors, sensor_name, devices,
                   cycle, committed, arrived, response,
                   previous, succeeded, slots>>

\* let mut gauges = state.temperature_gauges.write();
LoopLockGauges ==
    /\ pcLoop = "lock_gauges"
    /\ CanWrite(gaugesLock)
    /\ gaugesLock' = Granted(gaugesLock)
    /\ pcLoop' = "iter"
    /\ UNCHANGED <<file, result, temperatures, temperature_gauges, gaugeValue,
                   registry, tempsLock, pcMain, sensors, sensor_name, devices,
                   cycle, committed, arrived, response,
                   read_dir, previous, succeeded, slots>>

\* for sensor in sensors: the next sensor, in the directory's order.
LoopNextSensor ==
    /\ pcLoop = "iter"
    /\ \E s \in sensors :
          /\ sensor_name' = s
          /\ sensors' = sensors \ {s}
    /\ pcLoop' = "read"
    /\ UNCHANGED <<file, result, temperatures, temperature_gauges, gaugeValue,
                   registry, tempsLock, gaugesLock, pcMain, devices, cycle,
                   committed, arrived, response,
                   read_dir, previous, succeeded, slots>>

\* What the history keeps of a read: the value, or that it failed.
Outcome(r) == IF r.ok THEN r ELSE Err("failed")

\* match read_temperature(&sensor.path()): the Err arm logs and the for loop
\* goes on; the Ok arm goes on with temp.
LoopReadTemperature ==
    /\ pcLoop = "read"
    /\ \E f \in FileSamples :
          LET r == read_temperature(f)
          IN  /\ cycle' = [cycle EXCEPT !.reads = Insert(@, sensor_name, Outcome(r))]
              /\ previous' = Repeated(previous, sensor_name, Outcome(r))
              /\ IF r.ok
                 THEN /\ temperatures' = temperatures
                      /\ succeeded' = succeeded \cup {sensor_name}
                      /\ file' = f
                      /\ result' = r
                      /\ pcLoop' = "insert"
                      /\ sensors' = sensors
                      /\ sensor_name' = sensor_name
                 ELSE /\ temperatures' = KeptOnError(temperatures, sensor_name)
                      /\ succeeded' = succeeded
                      /\ file' = Unreadable
                      /\ result' = NoResult
                      /\ pcLoop' = AfterReadError
                      /\ sensors' = AfterFailedRead(sensors)
                      /\ sensor_name' = <<>>
    /\ UNCHANGED <<temperature_gauges, gaugeValue, registry,
                   tempsLock, gaugesLock, pcMain, devices, committed, arrived, response,
                   read_dir, slots>>

\* temps.insert(sensor_name.clone(), temp);
LoopInsert ==
    /\ pcLoop = "insert"
    /\ temperatures' = Upsert(temperatures, sensor_name, result.val)
    /\ IF sensor_name \in DOMAIN temperatures
       THEN slots' = slots
       ELSE \E i \in 0..Len(slots) : slots' = PlacedAt(slots, i, sensor_name)
    /\ pcLoop' = "gauge"
    /\ UNCHANGED <<file, result, temperature_gauges, gaugeValue, registry,
                   tempsLock, gaugesLock, pcMain, sensors, sensor_name, devices,
                   cycle, committed, arrived, response,
                   read_dir, previous, succeeded>>

\* gauges.entry(sensor_name.clone()).or_insert_with(|| { .. register .. }): a
\* failed register panics inside the closure; the unwinding drops both guards
\* and the task ends.
LoopGetOrCreateGauge ==
    /\ pcLoop = "gauge"
    /\ IF NeedsGauge(temperature_gauges, sensor_name)
       THEN LET gauge == NewGauge(sensor_name)
            IN  IF RegisterOk(registry, gauge)
                THEN /\ gaugeValue' = Insert(gaugeValue, gauge, InitialValue)
                     /\ registry' = registry \cup {gauge}
                     /\ temperature_gauges' =
                            Insert(temperature_gauges, sensor_name, gauge)
                     /\ pcLoop' = "set"
                     /\ UNCHANGED <<tempsLock, gaugesLock>>
                ELSE /\ pcLoop' = "panicked"
                     /\ tempsLock' = Dropped(tempsLock)
                     /\ gaugesLock' = Dropped(gaugesLock)
                     /\ UNCHANGED <<gaugeValue, registry, temperature_gauges>>
       ELSE /\ pcLoop' = "set"
            /\ UNCHANGED <<gaugeValue, registry, temperature_gauges, tempsLock,
                           gaugesLock>>
    /\ UNCHANGED <<file, result, temperatures, pcMain, sensors, sensor_name,
                   devices, cycle, committed, arrived, response,
                   read_dir, previous, succeeded, slots>>

\* gauge.set(temp); the arm ends, temp and sensor_name go out of scope.
LoopSetGauge ==
    /\ pcLoop = "set"
    /\ gaugeValue' = [gaugeValue EXCEPT ![temperature_gauges[sensor_name]] =
                         SetTo(result.val)]
    /\ file' = Unreadable
    /\ result' = NoResult
    /\ sensor_name' = <<>>
    /\ pcLoop' = "iter"
    /\ UNCHANGED <<temperatures, temperature_gauges, registry, tempsLock,
                   gaugesLock, pcMain, sensors, devices, cycle, committed,
                   arrived, response,
                   read_dir, previous, succeeded, slots>>

\* The for loop is over and the Ok arm's block ends: gauges, then temps, are
\* dropped.  Then time::sleep(60 s).await.
LoopUnlock ==
    /\ pcLoop = "iter"
    /\ sensors = {}
    /\ gaugesLock' = Dropped(gaugesLock)
    /\ tempsLock' = Dropped(tempsLock)
    /\ committed' = temperatures
    /\ previous' = NoPrevious
    /\ pcLoop' = "sleep"
    /\ UNCHANGED <<file, result, temperatures, temperature_gauges, gaugeValue,
                   registry, pcMain, sensors, sensor_name, devices, cycle,
                   arrived, response,
                   read_dir, succeeded, slots>>

\* The sleep is over: the next iteration of loop { .. }.
LoopTick ==
    /\ pcLoop = "sleep"
    /\ pcLoop' = "read_dir"
    /\ UNCHANGED <<file, result, temperatures, temperature_gauges, gaugeValue,
                   registry, tempsLock, gaugesLock, pcMain, sensors,
                   sensor_name, devices, cycle, committed, arrived, response,
                   read_dir, previous, succeeded, slots>>

(***************************************************************************)
(* The request handlers, once the server runs.  Up to NumRequests          *)
(* /temperatures requests are handled at the same time: a request arrives, *)
(* takes the read lock when the lock lets it, and returns its readings.    *)
(* metrics_handler takes neither RwLock and runs in one step.              *)
(***************************************************************************)
Returned(handler, body) == [handler |-> handler, body |-> body]

\* (mutant of MetricsLocks: metrics_handler reads the store under its lock)
MetricsLocksStore == {tempsLock}

\* The RwLocks of AppState metrics_handler takes before it gathers: none.
MetricsLocks == {}

\* GET /temperatures is routed to temperatures_handler.
TemperaturesArrive ==
    /\ pcMain = "serving"
    /\ arrived + tempsLock.readers < NumRequests
    /\ arrived' = arrived + 1
    /\ UNCHANGED <<file, result, temperatures, temperature_gauges, gaugeValue,
                   registry, tempsLock, gaugesLock, pcMain, pcLoop, sensors,
                   sensor_name, devices, cycle, committed, response,
                   read_dir, previous, succeeded, slots>>

\* temperatures_handler: let temps = state.temperatures.read();
TemperaturesLock ==
    /\ arrived > 0
    /\ CanRead(tempsLock)
    /\ arrived' = arrived - 1
    /\ tempsLock' = [tempsLock EXCEPT !.readers = @ + 1]
    /\ UNCHANGED <<file, result, temperatures, temperature_gauges, gaugeValue,
                   registry, gaugesLock, pcMain, pcLoop, sensors, sensor_name,
                   devices, cycle, committed, response,
                   read_dir, previous, succeeded, slots>>

\* temperatures_handler: the readings are collected, the guard is dropped and
\* Json(readings) is returned.
TemperaturesCollect ==
    /\ tempsLock.readers > 0
    /\ response' = Returned("temperatures", Readings(temperatures))
    /\ tempsLock' = [tempsLock EXCEPT !.readers = @ - 1]
    /\ UNCHANGED <<file, result, temperatures, temperature_gauges, gaugeValue,
                   registry, gaugesLock, pcMain, pcLoop, sensors, sensor_name,
                   devices, cycle, committed, arrived,
                   read_dir, previous, succeeded, slots>>

\* metrics_handler: state.registry.gather(), encoded and returned.
Metrics ==
    /\ pcMain = "serving"
    /\ \A l \in MetricsLocks : CanRead(l)
    /\ response' = Returned("metrics", Gather)
    /\ UNCHANGED <<file, result, temperatures, temperature_gauges, gaugeValue,
                   registry, tempsLock, gaugesLock, pcMain, pcLoop, sensors,
                   sensor_name, devices, cycle, committed, arrived,
                   read_dir, previous, succeeded, slots>>

(***************************************************************************)
(* The service.                                                            *)
(***************************************************************************)
Main ==
    \/ MainReadDirOk
    \/ MainReadDirErr
    \/ MainSeed
    \/ MainSeedDone
    \/ MainSpawn
    \/ MainServe

Loop ==
    \/ LoopReadDirOk
    \/ LoopReadDirErr
    \/ LoopParkTemps
    \/ LoopLockTemps
    \/ LoopLockGauges
    \/ LoopNextSensor
    \/ LoopReadTemperature
    \/ LoopInsert
    \/ LoopGetOrCreateGauge
    \/ LoopSetGauge
    \/ LoopUnlock
    \/ LoopTick

Handlers ==
    \/ TemperaturesArrive
    \/ TemperaturesLock
    \/ TemperaturesCollect
    \/ Metrics

Next == Main \/ Loop \/ Handlers

Spec == Init /\ [][Next]_vars

(***************************************************************************)
(* read_temperature on its own: every w1_slave file of the bounded set     *)
(* below is read once.                                                     *)
(***************************************************************************)
LineAlphabet == {"t", "=", "1", "-", " "}

\* All texts over alphabet of at most n characters.
TextsUpTo(alphabet, n) == UNION {[1..k -> alphabet] : k \in 0..n}

\* Lines at the limits of an i32, with a sign, with leading zeros, with a
\* carriage return, and the second line "xyz t=23625 def".
ExtraLines ==
    { <<"t", "=", "2", "1", "4", "7", "4", "8", "3", "6", "4", "7">>,
      <<"t", "=", "2", "1", "4", "7", "4", "8", "3", "6", "4", "8">>,
      <<"t", "=", "-", "2", "1", "4", "7", "4", "8", "3", "6", "4", "8">>,
      <<"t", "=", "-", "2", "1", "4", "7", "4", "8", "3", "6", "4", "9">>,
      <<"x", " ", "t", "=", "+", "5">>,
      <<"t", "=", "0", "0", "7">>,
      <<"t", "=", "9", "9", "9", "9", "9", "9", "9", "9", "9", "9", "9">>,
      <<"x", "y", "z", " ", "t", "=", "2", "3", "6", "2", "5">>,
      <<"x", "y", "z", " ", "t", "=", "2", "3", "6", "2", "5", CR>>,
      <<"x", "y", "z", " ", "t", "=", "2", "3", "6", "2", "5", " ", "d", "e", "f">> }

\* The second lines tried: every text over LineAlphabet of at most n
\* characters, and ExtraLines.
SecondLines(n) == TextsUpTo(LineAlphabet, n) \cup ExtraLines
FirstLines == {<<>>, <<"a", "b", "c">>, <<"t", "=", "1">>}
Endings == {<<>>, <<NL>>, <<NL, "t", "=", "1">>}

\* The files tried: the unreadable one, a text of one line, and the texts
\* FirstLine \n SecondLine Ending.
ParseInit ==
    /\ \/ file = Unreadable
       \/ \E l \in SecondLines(MaxLineLen) :
             \/ file = Readable(l)
             \/ \E a \in FirstLines, e \in Endings :
                   file = Readable(a \o <<NL>> \o l \o e)
    /\ result = NoResult
    /\ Constructed

ParseRead ==
    /\ result = NoResult
    /\ result' = read_temperature(file)
    /\ UNCHANGED <<file, temperatures, temperature_gauges, gaugeValue, registry,
                   tempsLock, gaugesLock, pcMain, pcLoop, sensors, sensor_name,
                   devices, cycle, committed, arrived, response,
                   read_dir, previous, succeeded, slots>>

ParseNext == ParseRead

ParseSpec == ParseInit /\ [][ParseNext]_vars

(***************************************************************************)
(* What the claims about read_temperature speak of, said without the       *)
(* operators of the model: the second line of a text, a t= on it, and a    *)
(* decimal integer.                                                        *)
(***************************************************************************)
\* The text has at least two lines: something follows a line feed.
HasTwoLines(text) == \E i \in 1..Len(text) : text[i] = NL /\ i < Len(text)

LineFeeds(text) == {i \in 1..Len(text) : text[i] = NL}
FirstLineFeed(text) ==
    CHOOSE i \in LineFeeds(text) : \A j \in LineFeeds(text) : i <= j

\* The second line, without its line ending.
SecondLine(text) ==
    LET from == FirstLineFeed(text) + 1
        later == {i \in LineFeeds(text) : i >= from}
        to == IF later = {} THEN Len(text)
              ELSE (CHOOSE i \in later : \A j \in later : i <= j) - 1
        ended == later # {}
    IN  IF ended /\ to >= from /\ text[to] = CR
        THEN SubSeq(text, from, to - 1) ELSE SubSeq(text, from, to)

\* t= stands at position i of the line.
TEqAt(line, i) == i + 1 <= Len(line) /\ line[i] = "t" /\ line[i + 1] = "="
TEqs(line) == {i \in 1..Len(line) : TEqAt(line, i)}

\* A decimal integer: an optional sign and at least one digit.
Unsigned(s) == IF s # <<>> /\ s[1] \in {"+", "-"} THEN Tail(s) ELSE s
IsInteger(s) ==
    /\ Unsigned(s) # <<>>
    /\ \A i \in 1..Len(Unsigned(s)) : Unsigned(s)[i] \in Digits

\* The digits without their leading zeros.
Significant(ds) ==
    LET nz == {i \in 1..Len(ds) : ds[i] # "0"}
    IN  IF nz = {} THEN <<>>
        ELSE SubSeq(ds, CHOOSE i \in nz : \A j \in nz : i <= j, Len(ds))

\* a <= b for two numbers of the same number of digits.
DigitsLeq(a, b) ==
    \A i \in 1..Len(a) :
        (\A j \in 1..(i - 1) : a[j] = b[j]) => DigitVal(a[i]) <= DigitVal(b[i])

\* The integer lies between -2^31 and 2^31 - 1.
FitsI32(s) ==
    LET ds == Significant(Unsigned(s))
        limit == IF s[1] = "-"
                 THEN <<"2", "1", "4", "7", "4", "8", "3", "6", "4", "8">>
                 ELSE <<"2", "1", "4", "7", "4", "8", "3", "6", "4", "7">>
    IN  Len(ds) < 10 \/ (Len(ds) = 10 /\ DigitsLeq(ds, limit))

RECURSIVE SumOf(_, _)
SumOf(ds, sign) ==
    IF ds = <<>> THEN 0
    ELSE sign * DigitVal(ds[1]) * 10 ^ (Len(ds) - 1) + SumOf(Tail(ds), sign)

\* The number an integer within the i32 range denotes.
ValueOf(s) == SumOf(Significant(Unsigned(s)), IF s[1] = "-" THEN -1 ELSE 1)

\* The prefixes of rest that are a field's integer: an integer within the i32
\* range that no further digit continues.
FieldEnds(rest) ==
    {k \in 1..Len(rest) :
        /\ IsInteger(SubSeq(rest, 1, k))
        /\ FitsI32(SubSeq(rest, 1, k))
        /\ (k = Len(rest) \/ rest[k + 1] \notin Digits)}

ReadDone == result # NoResult

EndsWithField(line) ==
    /\ TEqs(line) # {}
    /\ LET i == CHOOSE i \in TEqs(line) : \A j \in TEqs(line) : i <= j
           rest == SubSeq(line, i + 2, Len(line))
       IN  IsInteger(rest) /\ FitsI32(rest)

FieldValue(line) ==
    LET i == CHOOSE i \in TEqs(line) : \A j \in TEqs(line) : i <= j
    IN  ValueOf(SubSeq(line, i + 2, Len(line)))

FirstValue(line) ==
    LET i == CHOOSE i \in TEqs(line) : \A j \in TEqs(line) : i <= j
        next == {j \in TEqs(line) : j >= i + 2}
        to == IF next = {} THEN Len(line)
              ELSE (CHOOSE j \in next : \A m \in next : j <= m) - 1
    IN  SubSeq(line, i + 2, to)

\* The text after the line's first t=, to the end of the line.
TextAfterTEq(line) ==
    LET i == CHOOSE i \in TEqs(line) : \A j \in TEqs(line) : i <= j
    IN  SubSeq(line, i + 2, Len(line))

\* C6, as claimed: a content that is unreadable, has fewer than two lines, has
\* no t= on its second line, or whose text after t= is not an integer, gives an
\* error and no number.
MalformedIsErrorToLineEnd ==
    (ReadDone /\ ( \/ ~file.readable
                   \/ ~HasTwoLines(file.text)
                   \/ TEqs(SecondLine(file.text)) = {}
                   \/ ~IsInteger(TextAfterTEq(SecondLine(file.text))) )) =>
        (~result.ok /\ DOMAIN result = {"ok", "err"})

\* C6, amended: a content that is unreadable, has fewer than two lines, has no
\* t= on its second line, or whose text between the first t= of that line and
\* the next t= (or the end of the line) is not an integer, gives an error and
\* no number.
MalformedIsError ==
    (ReadDone /\ ( \/ ~file.readable
                   \/ ~HasTwoLines(file.text)
                   \/ TEqs(SecondLine(file.text)) = {}
                   \/ ~IsInteger(FirstValue(SecondLine(file.text))) )) =>
        (~result.ok /\ DOMAIN result = {"ok", "err"})

\* C6, witness: "abc\nt=1-\n", whose text after t= is not an integer, was read
\* and gave an error.
MalformedWitness ==
    /\ file = Readable(<<"a", "b", "c", NL, "t", "=", "1", "-", NL>>)
    /\ ~IsInteger(FirstValue(SecondLine(file.text)))
    /\ ReadDone
    /\ ~result.ok

(***************************************************************************)
(* The service under the scheduling the runtime gives: main and the loop   *)
(* task keep running, every sensor read returns, and a handler that can    *)
(* take the read lock, or holds it, goes on.                               *)
(***************************************************************************)
LiveSpec ==
    /\ Init
    /\ [][Next]_vars
    /\ WF_vars(Main)
    /\ WF_vars(Loop)
    /\ WF_vars(TemperaturesLock)
    /\ WF_vars(TemperaturesCollect)

(***************************************************************************)
(* The claims about the service.                                           *)
(***************************************************************************)
\* The loop is inside a cycle: between taking the first lock and the sleep.
InCycle == pcLoop \in {"lock_gauges", "iter", "read", "insert", "gauge", "set"}

\* A step in which temperatures_handler returns.
TemperaturesReturns == tempsLock'.readers < tempsLock.readers

\* C1: the readings a /temperatures request returns are the store as it was
\* when the last sampling cycle ended (before the cycle in progress began, if
\* one is in progress); never a store that a cycle has updated in part.
SnapshotConsistent ==
    [][TemperaturesReturns =>
          /\ response'.handler = "temperatures"
          /\ response'.body = Readings(committed)]_vars

\* C1, witness: the response of a request that was handled before a cycle,
\* while that cycle has already changed the store and another request waits.
SnapshotWitness ==
    /\ InCycle
    /\ temperatures # committed
    /\ arrived > 0
    /\ response.handler = "temperatures"
    /\ response.body = Readings(committed)
    /\ response.body # <<>>

\* C2, as claimed: every series a /metrics request returns carries a value
\* that was set from a successful read; none carries the gauge's initial 0.
MetricsNeverUnset ==
    response.handler = "metrics" => \A series \in response.body : series.written

\* C3: every sensor in the gauge map has exactly one gauge, its own, and the
\* registered collectors are exactly the gauges of the map, one per sensor;
\* no gauge is ever made for a sensor that has one (get-or-create never
\* fails); a sensor keeps its gauge, and the registry grows by exactly the
\* gauges of the sensors that are new to the map.
GetOrCreateIdempotent ==
    /\ [](/\ \A k \in DOMAIN temperature_gauges :
                temperature_gauges[k].sensor = k
          /\ registry = {temperature_gauges[k] : k \in DOMAIN temperature_gauges}
          /\ DOMAIN gaugeValue = registry
          /\ Cardinality(registry) = Cardinality(DOMAIN temperature_gauges)
          /\ pcLoop # "panicked"
          /\ pcMain # "panicked")
    /\ [][/\ \A k \in DOMAIN temperature_gauges :
                /\ k \in DOMAIN temperature_gauges'
                /\ temperature_gauges'[k] = temperature_gauges[k]
          /\ Cardinality(registry') - Cardinality(registry) =
                Cardinality(DOMAIN temperature_gauges' \ DOMAIN temperature_gauges)
          /\ registry \subseteq registry']_vars

\* C3, witness: a sensor whose gauge was set in an earlier cycle has been read
\* again and is about to be set again, and there are two gauges, both set.
GetOrCreateWitness ==
    /\ pcLoop = "set"
    /\ sensor_name \in DOMAIN temperature_gauges
    /\ gaugeValue[temperature_gauges[sensor_name]].written
    /\ Cardinality(registry) = 2
    /\ \A g \in registry : gaugeValue[g].written

\* The series of a sensor in the exposition.
Series(s) == {x \in Gather : x.sensor = s}

\* The cycle that has just ended updated sensor s to the value it read.
Updated(s) ==
    /\ s \in DOMAIN temperatures
    /\ temperatures[s] = cycle.reads[s].val
    /\ [sensor_id |-> s, celsius |-> cycle.reads[s].val]
          \in Items(Readings(temperatures))
    /\ Series(s) # {}
    /\ \A x \in Series(s) : x.value = cycle.reads[s].val

CycleDone == pcLoop = "sleep" /\ cycle.enumerated

\* C5: when a cycle has ended, every sensor it read successfully is in the
\* store with the value read, and its series in the exposition has that value.
CycleEffect ==
    CycleDone => \A s \in DOMAIN cycle.reads : cycle.reads[s].ok => Updated(s)

\* C5, witness: a cycle read 23.625 from 28-0001 and has ended.
CycleEffectWitness ==
    /\ CycleDone
    /\ Sensor1 \in DOMAIN cycle.reads
    /\ cycle.reads[Sensor1] = Ok(<<23625, 1000>>)
    /\ Updated(Sensor1)

\* C7: when a cycle has ended, every sensor it listed has been read, whatever
\* the other reads gave, and each one whose read succeeded is updated.
FailureIsolation ==
    CycleDone =>
        /\ DOMAIN cycle.reads = cycle.listed
        /\ \A s \in cycle.listed : cycle.reads[s].ok => Updated(s)

\* C7, witness: a cycle in which one sensor failed and another was updated.
FailureIsolationWitness ==
    /\ CycleDone
    /\ \E s \in cycle.listed : ~cycle.reads[s].ok
    /\ \E s \in cycle.listed : cycle.reads[s].ok /\ Updated(s)

\* The step of the loop that finds the devices directory unlistable.
EnumerationFails == pcLoop = "read_dir" /\ pcLoop' # "read_dir" /\ ~cycle'.enumerated

\* C8: a cycle whose enumeration fails changes neither the store, the gauge
\* map, the gauges nor the registry, takes no lock, and goes to sleep.
EnumerationFailureNoOp ==
    [][EnumerationFails =>
          /\ temperatures' = temperatures
          /\ temperature_gauges' = temperature_gauges
          /\ gaugeValue' = gaugeValue
          /\ registry' = registry
          /\ tempsLock' = tempsLock
          /\ gaugesLock' = gaugesLock
          /\ pcLoop' = "sleep"]_vars

\* C8, witness: the loop sleeps after a failed enumeration, the store still
\* holding what an earlier cycle read.
EnumerationFailureWitness ==
    /\ pcLoop = "sleep"
    /\ ~cycle.enumerated
    /\ temperatures # EmptyMap
    /\ temperatures = committed

\* C9: the loop never ends: it is never panicked or returned, it sleeps again
\* and again, and it starts a cycle again and again.
LoopNeverTerminates ==
    /\ [](pcLoop \notin {"panicked", "returned"})
    /\ []<>(pcLoop = "sleep")
    /\ []<>(pcLoop = "read_dir")

\* C9, witness: the loop sleeps after a cycle in which a read failed, with a
\* gauge seeded at startup that was never set.
LoopNeverTerminatesWitness ==
    /\ CycleDone
    /\ \E s \in cycle.listed : ~cycle.reads[s].ok
    /\ \E g \in registry : ~gaugeValue[g].written

\* C10: while the loop sleeps it holds neither write lock.
NoLockWhileSleeping ==
    pcLoop = "sleep" =>
        /\ ~tempsLock.writer /\ ~tempsLock.waiting
        /\ ~gaugesLock.writer /\ ~gaugesLock.waiting

\* C10, witness: the loop sleeps after a cycle that took both locks and
\* updated a sensor.
NoLockWhileSleepingWitness ==
    /\ CycleDone
    /\ \E s \in cycle.listed : cycle.reads[s].ok

\* The loop is performing a sensor file read: read_temperature has been
\* called and has not returned.
ReadInProgress == pcLoop = "read"

\* C11, as claimed: while the loop performs a sensor file read it holds
\* neither the lock of the store nor the lock of the gauge map, and a
\* /temperatures request that has arrived can take the read lock.
NoLockDuringRead ==
    ReadInProgress =>
        /\ ~tempsLock.writer
        /\ ~gaugesLock.writer
        /\ (arrived > 0 => ~tempsLock.writer /\ ~tempsLock.waiting)

NeverDeleted ==
    [][/\ DOMAIN temperatures \subseteq DOMAIN temperatures'
       /\ DOMAIN temperature_gauges \subseteq DOMAIN temperature_gauges'
       /\ registry \subseteq registry'
       /\ \A s \in DOMAIN temperatures :
             s \notin cycle'.listed => temperatures'[s] = temperatures[s]
       /\ \A s \in DOMAIN temperature_gauges :
             s \notin cycle'.listed =>
                gaugeValue'[temperature_gauges'[s]] =
                   gaugeValue[temperature_gauges[s]]]_vars

\* C13, witness: a cycle that listed and updated one sensor has ended, and a
\* sensor it did not list is in the store and in the exposition with the
\* value of its last read.
NeverDeletedWitness ==
    /\ CycleDone
    /\ \E s \in cycle.listed : cycle.reads[s].ok
    /\ \E s \in DOMAIN temperatures :
          /\ s \notin cycle.listed
          /\ temperatures[s] = committed[s]
          /\ \E x \in Series(s) : x.written /\ x.value = temperatures[s]

\* The name begins with 28-.
Has28Prefix(name) ==
    Len(name) >= 3 /\ name[1] = "2" /\ name[2] = "8" /\ name[3] = "-"

\* The sensors a cycle has taken from its iterator so far.
Visited ==
    DOMAIN cycle.reads \cup (IF ReadInProgress THEN {sensor_name} ELSE {})

\* C14: the sensors startup has seeded when its enumeration ends are exactly
\* the listed entries that begin with 28-; the sensors a cycle sets out to
\* read are exactly the listed entries that begin with 28-, they stay the
\* sensors read and still to read all through the cycle, and when the cycle
\* ends they are exactly the sensors read.
EnumerationFilter ==
    /\ (pcMain = "seeding" /\ devices = {}) =>
          DOMAIN temperature_gauges = {e \in read_dir : Has28Prefix(e)}
    /\ pcLoop = "lock_temps" =>
          /\ sensors = {e \in read_dir : Has28Prefix(e)}
          /\ cycle.listed = sensors
    /\ (pcLoop = "lock_temps" \/ InCycle) => cycle.listed = sensors \cup Visited
    /\ CycleDone => DOMAIN cycle.reads = cycle.listed

\* C14, witness: the listing {28-0001, 28-0002, foo-bar, 00-xyz} has given a
\* cycle exactly 28-0001 and 28-0002 to read.
EnumerationFilterWitness ==
    /\ pcLoop = "lock_temps"
    /\ read_dir = {Sensor1, Sensor2, FooBar, ZeroXyz}
    /\ sensors = {Sensor1, Sensor2}

\* The for loop of a cycle is over and every read of the cycle gave what the
\* same sensor gave in the cycle before, which listed the same sensors.
CycleRepeated == pcLoop = "iter" /\ sensors = {} /\ previous.known

\* C15: after a cycle that listed the sensors the cycle before listed and read
\* of each what that cycle read, the store is the store the cycle before
\* left, a request would return the readings it would have returned then, and
\* as many collectors are registered; such a cycle does not panic.
CycleIdempotent ==
    /\ CycleRepeated =>
          /\ temperatures = committed
          /\ Readings(temperatures) = Readings(committed)
          /\ Cardinality(DOMAIN temperatures) = Cardinality(DOMAIN committed)
          /\ Cardinality(registry) = previous.registered
    /\ previous.known => pcLoop # "panicked"

\* C15, witness: a cycle has repeated a cycle that listed two sensors, read
\* one and failed to read the other.
CycleIdempotentWitness ==
    /\ CycleRepeated
    /\ cycle.listed = {Sensor1, Sensor2}
    /\ \E s \in cycle.listed : cycle.reads[s].ok /\ temperatures[s] = cycle.reads[s].val
    /\ \E s \in cycle.listed : ~cycle.reads[s].ok

\* The sensors that have a registered collector.
Registered(reg) == {g.sensor : g \in reg}

\* C16: neither main nor the loop ever panics on registry.register; the
\* sensors with a registered collector are always the keys of the gauge map;
\* and a collector is only ever registered for a sensor that has none and is
\* not in the gauge map.
NoRegistrationConflict ==
    /\ [](/\ pcMain # "panicked"
          /\ pcLoop # "panicked"
          /\ Registered(registry) = DOMAIN temperature_gauges)
    /\ [][\A g \in registry' \ registry :
             /\ g.sensor \notin Registered(registry)
             /\ g.sensor \notin DOMAIN temperature_gauges]_vars

\* C16, witness: startup has registered 28-mock, and the cycles since have
\* registered 28-0001 and 28-0002 and read both again.
NoRegistrationConflictWitness ==
    /\ CycleDone
    /\ Registered(registry) = {MockDevice, Sensor1, Sensor2}
    /\ DOMAIN committed = {Sensor1, Sensor2}
    /\ \A s \in {Sensor1, Sensor2} : s \in cycle.listed /\ cycle.reads[s].ok

\* The step in which a read of the loop fails.
ReadFails ==
    /\ ReadInProgress
    /\ ~(ReadInProgress')
    /\ ~cycle'.reads[sensor_name].ok

\* C17: the step in which a read fails changes neither the store, the gauge
\* map, the value of any gauge nor the registry; a sensor is in the store
\* only if some read of it has succeeded; and the loop adds a sensor to the
\* gauge map only when a read of it has succeeded.
FailedReadChangesNothing ==
    /\ [][ReadFails =>
             /\ temperatures' = temperatures
             /\ temperature_gauges' = temperature_gauges
             /\ gaugeValue' = gaugeValue
             /\ registry' = registry]_vars
    /\ [](DOMAIN temperatures \subseteq succeeded)
    /\ [][pcLoop # "unspawned" =>
             DOMAIN temperature_gauges' \ DOMAIN temperature_gauges
                \subseteq succeeded']_vars

\* C17, witness: a cycle has failed to read two sensors; the one that was
\* read before has kept its value, in the store and in its gauge, and the one
\* that was never read is not in the store.
FailedReadWitness ==
    /\ CycleDone
    /\ \E s \in cycle.listed :
          /\ ~cycle.reads[s].ok
          /\ s \in DOMAIN temperatures
          /\ \E x \in Series(s) : x.written /\ x.value = temperatures[s]
    /\ \E s \in cycle.listed :
          /\ ~cycle.reads[s].ok
          /\ s \notin succeeded
          /\ s \notin DOMAIN temperatures

\* The step in which startup ends: main goes on to spawn the loop.
StartupEnds == pcMain # "spawn" /\ pcMain' = "spawn"

\* C18, as claimed: when startup ends the store is empty, and the gauge map
\* and the registry hold only sensors that the startup enumeration listed:
\* none when the devices directory could not be listed.
StartupOnlyEnumerated ==
    [][StartupEnds =>
          /\ temperatures' = EmptyMap
          /\ DOMAIN temperature_gauges' \subseteq read_dir
          /\ Registered(registry') \subseteq read_dir]_vars

\* The place of a character of an entry name in the ASCII order.
Ascii(c) ==
    CASE c = "-" -> 45
      [] c \in Digits -> 48 + DigitVal(c)
      [] c = "a" -> 97 [] c = "b" -> 98 [] c = "c" -> 99 [] c = "f" -> 102
      [] c = "k" -> 107 [] c = "m" -> 109 [] c = "o" -> 111 [] c = "r" -> 114
      [] c = "x" -> 120 [] c = "y" -> 121 [] c = "z" -> 122

\* Sensor id a comes before sensor id b in the order of strings.
IdLess(a, b) ==
    \E i \in 1..Len(b) :
       /\ \A j \in 1..(i - 1) : j <= Len(a) /\ a[j] = b[j]
       /\ (i > Len(a) \/ (i <= Len(a) /\ Ascii(a[i]) < Ascii(b[i])))

\* The sensor ids of a sequence of readings, and their being in id order.
Ids(readings) == [i \in 1..Len(readings) |-> readings[i].sensor_id]
SortedById(ids) ==
    \A i, j \in 1..Len(ids) : i < j => IdLess(ids[i], ids[j])

\* C19, as claimed: when a sensor is added to the store, the readings a
\* request gets from then on list the sensors by id, or list the new sensor
\* after the sensors listed before (the order of first insertion); and two
\* requests in a row that return the same readings return them in the same
\* order.
SnapshotOrdered ==
    [][/\ DOMAIN temperatures' # DOMAIN temperatures =>
             \/ SortedById(Ids(Readings(temperatures))')
             \/ /\ Len(Readings(temperatures)') = Len(Readings(temperatures)) + 1
                /\ SubSeq(Ids(Readings(temperatures))', 1, Len(Readings(temperatures)))
                      = Ids(Readings(temperatures))
       /\ (/\ TemperaturesReturns
           /\ response.handler = "temperatures"
           /\ Items(response.body) = Items(response'.body)) =>
             response'.body = response.body]_vars

(***************************************************************************)
(* The service when, besides, a request that waits for the read lock gets  *)
(* it once the loop has given it back: the unlock wakes the parked readers *)
(* and the loop then sleeps for 60 s before it asks for the lock again.    *)
(***************************************************************************)
HandoffSpec ==
    /\ Init
    /\ [][Next]_vars
    /\ WF_vars(Main)
    /\ WF_vars(Loop)
    /\ SF_vars(TemperaturesLock)
    /\ WF_vars(TemperaturesCollect)

\* The loop is between taking the store's lock and giving both locks back.
HoldsLocks == pcLoop \in {"lock_gauges", "iter", "read", "insert", "gauge", "set"}

\* C20: the loop holds the gauge map's lock only while it holds the store's,
\* never waits for the gauge map's lock, and holds neither lock outside a
\* cycle; no handler ever holds or waits for the gauge map's lock; startup is
\* over when the loop runs; when the loop waits for the store's lock it waits
\* for readers that can return, and when a request waits for the read lock
\* the loop is in a cycle or about to be, and the loop or a reader it waits
\* for can go on; and a request that waits for the read lock gets it in the
\* end.
LockDiscipline ==
    /\ [](/\ gaugesLock.writer => tempsLock.writer
          /\ pcLoop = "lock_gauges" => tempsLock.writer /\ CanWrite(gaugesLock)
          /\ gaugesLock.readers = 0 /\ ~gaugesLock.waiting
          /\ tempsLock.writer <=> HoldsLocks
          /\ gaugesLock.writer => HoldsLocks
          /\ pcLoop # "unspawned" => pcMain \in {"bind", "serving"}
          /\ (pcLoop = "lock_temps" /\ ~CanWrite(tempsLock)) =>
                tempsLock.readers > 0 /\ ENABLED TemperaturesCollect
          /\ (arrived > 0 /\ ~CanRead(tempsLock)) =>
                /\ HoldsLocks \/ pcLoop = "lock_temps"
                /\ ENABLED Loop \/ ENABLED TemperaturesCollect)
    /\ (arrived > 0) ~> (tempsLock.readers > 0)

\* C20, witness: the loop is parked behind a request that holds the read
\* lock, and another request waits behind the loop.
LockDisciplineWitness ==
    /\ pcLoop = "lock_temps"
    /\ tempsLock.waiting
    /\ tempsLock.readers > 0
    /\ arrived > 0
====
